---- MODULE Spec2Model ----
(***************************************************************************)
(* tif2jpeg.py: tiff2jpeg opens a multi-page TIFF once and converts every  *)
(* frame to a JPEG file on a thread pool.  The jobs (save_frame_shared)    *)
(* share the one image object; a threading.Lock guards seek + convert.     *)
(*                                                                         *)
(* The main thread and every job are modelled statement by statement.     *)
(* Library behaviour the program relies on (PIL seek/convert/save,         *)
(* ThreadPoolExecutor's FIFO work queue and its waiting shutdown, tqdm's   *)
(* counter) is modelled at the call that uses it.                          *)
(***************************************************************************)
EXTENDS Integers, Sequences, FiniteSets, TLC

\* ---------------------------------------------------------------- bounds
MaxPages == 3
MaxWorkers == 2
MaxCorrupt == 1
\* largest page count of the runs that call tiff2jpeg twice
MaxPagesTwice == 2
\* largest page count of the runs checked for termination
MaxPagesFair == 2

\* f"{i:05d}.jpg": minimum field width of the frame number
NameWidth == 5

VARIABLES
    tiff,          \* the input file: [valid, n_frames, kind] (never changed)
    max_workers,   \* size of the ThreadPoolExecutor's pool (never changed)
    pc,            \* position of the thread running tiff2jpeg
    folderExists,  \* output_folder exists on disk
    files,         \* output_folder's content: file name -> file content
    img,           \* the shared PIL image: [state, frame, closes]
    total_frames,  \* local of tiff2jpeg
    lock,          \* threading.Lock: NoJob when free, else the holder
    pbar,          \* tqdm bar: [state, total, n]
    executor,      \* "none", "running", "shutdown"
    submitted,     \* number of futures in the list `futures`
    seen,          \* number of iterations done of `for _ in futures`
    job,           \* per frame index: the job's pc and locals
    result,        \* what the caller of tiff2jpeg observes
    run,           \* which call of tiff2jpeg on this input and folder is running
    first          \* the folder and the jobs' outcomes when the first call returned

vars == <<tiff, max_workers, pc, folderExists, files, img, total_frames, lock,
          pbar, executor, submitted, seen, job, result, run, first>>

NoJob == -1
NoFrame == [mode |-> "none", px |-> 0]

\* ------------------------------------------------------- pure functions

\* decimal digits of a natural number, most significant first
RECURSIVE Digits(_)
Digits(i) == IF i < 10 THEN <<i>> ELSE Digits(i \div 10) \o <<i % 10>>

\* format spec "0{w}d": zero-fill on the left up to a minimum width
ZeroPad(s, w) == IF Len(s) >= w THEN s ELSE [k \in 1..(w - Len(s)) |-> 0] \o s

\* mutation of JpegFilename: the name is built from a value that is the same
\* for every frame instead of from i
JpegFilenameSameForAll(i) == [stem |-> ZeroPad(Digits(0), NameWidth), ext |-> "jpg"]

\* mutation of JpegFilename: f"{i}.jpg", the zero-fill forgotten
JpegFilenameUnpadded(i) == [stem |-> Digits(i), ext |-> "jpg"]

\* os.path.join(output_folder, f"{i:05d}.jpg"), relative to output_folder
JpegFilename(i) == [stem |-> ZeroPad(Digits(i), NameWidth), ext |-> "jpg"]

\* pixel data stored in the TIFF for frame i (greyscale, distinct per frame)
PageData(i) == [mode |-> "L", px |-> 10 + i]

\* Image.convert("RGB") of a loaded frame
ConvertRGB(im) ==
    IF im.mode = "RGB" THEN im
    ELSE [mode |-> "RGB", px |-> <<im.px, im.px, im.px>>]

\* the bytes frame.save(..., "JPEG") writes
EncodeJPEG(fr) == [format |-> "JPEG", mode |-> fr.mode, px |-> fr.px]

\* a file opened "w+b" and not yet written completely
Truncated == [format |-> "partial", mode |-> "none", px |-> 0]

Pages == 0 .. (tiff.n_frames - 1)

\* ------------------------------------------------------- directory helpers

WriteFile(fs, name, data) ==
    [n \in (DOMAIN fs) \cup {name} |-> IF n = name THEN data ELSE fs[n]]

RemoveFile(fs, name) == [n \in (DOMAIN fs) \ {name} |-> fs[n]]

NoFiles == [n \in {} |-> Truncated]

\* ------------------------------------------------------------- jobs

\* job[i].pc: "new" (not submitted), "queued", then the statement the job is
\* about to run: "lock", "seek", "convert", "release", "save", "write"; at the
\* end "done" (returned) or "failed" (raised; the exception is in job[i].exc)

Running(i) == job[i].pc \in {"lock", "seek", "convert", "release", "save", "write"}

Terminated(i) == job[i].pc \in {"done", "failed"}

NewJob == [pc |-> "new", filename |-> JpegFilename(0), frame |-> NoFrame,
           created |-> FALSE, exc |-> "none"]

\* ------------------------------------------------------------- initial state

PageKinds == {"ok", "badseek", "baddata"}

Inputs ==
    { t \in [valid : BOOLEAN, n_frames : 0..MaxPages,
             kind : [0..(MaxPages - 1) -> PageKinds]] :
        /\ \A i \in 0..(MaxPages - 1) : i >= t.n_frames => t.kind[i] = "ok"
        /\ Cardinality({i \in 0..(MaxPages - 1) : t.kind[i] # "ok"}) <= MaxCorrupt
        /\ ~t.valid => (t.n_frames = 0) }

Init ==
    /\ tiff \in Inputs
    /\ max_workers \in 1..MaxWorkers
    /\ pc = "makedirs"
    /\ folderExists \in BOOLEAN
    /\ files = NoFiles
    /\ img = [state |-> "unopened", frame |-> 0, closes |-> 0]
    /\ total_frames = 0
    /\ lock = NoJob
    /\ pbar = [state |-> "none", total |-> 0, n |-> 0]
    /\ executor = "none"
    /\ submitted = 0
    /\ seen = 0
    /\ job = [i \in 0..(MaxPages - 1) |-> NewJob]
    /\ result = "running"
    /\ run = 1
    /\ first = [files |-> NoFiles, done |-> {}]

\* ------------------------------------------------------------- main thread

SetJob(i, r) == [job EXCEPT ![i] = r]

\* mutation of Makedirs: the folder is not created before the open
MakedirsAfterOpen ==
    /\ pc = "makedirs"
    /\ pc' = "open"
    /\ UNCHANGED <<tiff, max_workers, run, first, folderExists, files, img, total_frames, lock,
                   pbar, executor, submitted, seen, job, result>>

\* mutation of Makedirs: the error of a failed makedirs is reported and the
\* conversion goes on
MakedirsIgnoresError ==
    /\ pc = "makedirs"
    /\ \/ /\ folderExists' = TRUE
          /\ UNCHANGED result
       \/ /\ ~folderExists
          /\ result' = "OutputDirError"
          /\ UNCHANGED folderExists
    /\ pc' = "open"
    /\ UNCHANGED <<tiff, max_workers, run, first, files, img, total_frames, lock, pbar,
                   executor, submitted, seen, job>>

\* line 31: os.makedirs(output_folder, exist_ok=True)
Makedirs ==
    /\ pc = "makedirs"
    /\ \/ /\ folderExists' = TRUE
          /\ pc' = "open"
          /\ UNCHANGED result
       \/ /\ ~folderExists          \* cannot be created: OSError propagates
          /\ pc' = "raised"
          /\ result' = "OutputDirError"
          /\ UNCHANGED folderExists
    /\ UNCHANGED <<tiff, max_workers, run, first, files, img, total_frames, lock, pbar,
                   executor, submitted, seen, job>>

\* lines 34-35: with Image.open(tiff_path) as img: total_frames = img.n_frames
OpenImage ==
    /\ pc = "open"
    /\ IF tiff.valid
       THEN /\ img' = [img EXCEPT !.state = "open", !.frame = 0]
            /\ total_frames' = tiff.n_frames
            /\ pc' = "pool"
            /\ UNCHANGED result
       ELSE /\ pc' = "raised"
            /\ result' = "OpenError"
            /\ UNCHANGED <<img, total_frames>>
    /\ UNCHANGED <<tiff, max_workers, run, first, folderExists, files, lock, pbar,
                   executor, submitted, seen, job>>

\* lines 38-42: threading.Lock(), tqdm(total=total_frames), ThreadPoolExecutor()
StartPool ==
    /\ pc = "pool"
    /\ lock' = NoJob
    /\ pbar' = [state |-> "open", total |-> total_frames, n |-> 0]
    /\ executor' = "running"
    /\ pc' = "submit"
    /\ UNCHANGED <<tiff, max_workers, run, first, folderExists, files, img, total_frames,
                   submitted, seen, job, result>>

\* mutation of FrameRange: range(1, total_frames)
FrameRangeFromOne == [k \in 1 .. (total_frames - 1) |-> k]

\* line 44: range(total_frames), as the sequence of indices it yields
FrameRange == [k \in 1 .. total_frames |-> k - 1]

\* line 44: executor.submit(save_frame_shared, img, i, output_folder, lock)
\* for the next i of the range; the job waits in the pool's work queue
Submit ==
    /\ pc = "submit"
    /\ submitted < Len(FrameRange)
    /\ LET i == FrameRange[submitted + 1]
       IN  job' = SetJob(i, [job[i] EXCEPT !.pc = "queued"])
    /\ submitted' = submitted + 1
    /\ UNCHANGED <<tiff, max_workers, run, first, pc, folderExists, files, img, total_frames,
                   lock, pbar, executor, seen, result>>

\* line 44: the list comprehension is exhausted
SubmitDone ==
    /\ pc = "submit"
    /\ submitted >= Len(FrameRange)
    /\ pc' = "update"
    /\ UNCHANGED <<tiff, max_workers, run, first, folderExists, files, img, total_frames,
                   lock, pbar, executor, submitted, seen, job, result>>

\* mutation of Update: the bar advances only for a future that ended without
\* an exception (if f.exception() is None: pbar.update(1))
UpdateOnSuccess ==
    /\ pc = "update"
    /\ seen < submitted
    /\ Terminated(seen)
    /\ pbar' = IF job[seen].pc = "done" THEN [pbar EXCEPT !.n = @ + 1] ELSE pbar
    /\ seen' = seen + 1
    /\ UNCHANGED <<tiff, max_workers, run, first, pc, folderExists, files, img, total_frames,
                   lock, executor, submitted, job, result>>

\* lines 47-48: for _ in futures: pbar.update(1)
\* (the future itself is not used: neither waited for nor asked its result)
Update ==
    /\ pc = "update"
    /\ seen < submitted
    /\ pbar' = [pbar EXCEPT !.n = @ + 1]
    /\ seen' = seen + 1
    /\ UNCHANGED <<tiff, max_workers, run, first, pc, folderExists, files, img, total_frames,
                   lock, executor, submitted, job, result>>

\* line 47: the loop over futures is exhausted
UpdateDone ==
    /\ pc = "update"
    /\ seen = submitted
    /\ pc' = "shutdown"
    /\ UNCHANGED <<tiff, max_workers, run, first, folderExists, files, img, total_frames,
                   lock, pbar, executor, submitted, seen, job, result>>

\* mutation of PoolJoined: shutdown(wait=False)
PoolNotJoined == TRUE

\* line 42: ThreadPoolExecutor.__exit__ calls shutdown(wait=True), which joins
\* the worker threads: it returns when every submitted job has run to its end
PoolJoined == \A i \in DOMAIN job : job[i].pc # "new" => Terminated(i)

\* line 42: leaving `with ThreadPoolExecutor() as executor`
Shutdown ==
    /\ pc = "shutdown"
    /\ PoolJoined
    /\ executor' = "shutdown"
    /\ pc' = "pbar_close"
    /\ UNCHANGED <<tiff, max_workers, run, first, folderExists, files, img, total_frames,
                   lock, pbar, submitted, seen, job, result>>

\* line 41: leaving `with tqdm(...) as pbar`
PbarClose ==
    /\ pc = "pbar_close"
    /\ pbar' = [pbar EXCEPT !.state = "closed"]
    /\ pc' = "img_close"
    /\ UNCHANGED <<tiff, max_workers, run, first, folderExists, files, img, total_frames,
                   lock, executor, submitted, seen, job, result>>

\* line 34: leaving `with Image.open(...) as img`; tiff2jpeg returns None
ImgClose ==
    /\ pc = "img_close"
    /\ img' = [img EXCEPT !.state = "closed", !.closes = @ + 1]
    /\ pc' = "done"
    /\ result' = "None"
    /\ UNCHANGED <<tiff, max_workers, run, first, folderExists, files, total_frames, lock,
                   pbar, executor, submitted, seen, job>>

\* ------------------------------------------------------------- worker threads

\* the jobs waiting in the executor's work queue (a FIFO queue, filled in
\* submission order, which is index order)
Queued == {i \in DOMAIN job : job[i].pc = "queued"}

\* a pool thread is idle
WorkerFree == Cardinality({i \in DOMAIN job : Running(i)}) < max_workers

\* line 42/44: a pool thread takes the oldest queued job and calls
\* save_frame_shared; line 17 computes jpeg_filename
Dequeue(i) ==
    /\ executor = "running"
    /\ i \in Queued
    /\ \A j \in Queued : i <= j
    /\ WorkerFree
    /\ job' = SetJob(i, [job[i] EXCEPT !.pc = "lock", !.filename = JpegFilename(i)])
    /\ UNCHANGED <<tiff, max_workers, run, first, pc, folderExists, files, img, total_frames,
                   lock, pbar, executor, submitted, seen, result>>

\* mutation of LockAvailable: no lock around seek and convert
LockIgnored == TRUE

\* line 18: lock.acquire() returns only when the lock is not held
LockAvailable == lock = NoJob

\* mutation of Acquire: lock.acquire(blocking=False), its result not looked at
AcquireNoWait(i) ==
    /\ job[i].pc = "lock"
    /\ lock' = i
    /\ job' = SetJob(i, [job[i] EXCEPT !.pc = "seek"])
    /\ UNCHANGED <<tiff, max_workers, run, first, pc, folderExists, files, img, total_frames,
                   pbar, executor, submitted, seen, result>>

\* line 18: with lock (enter)
Acquire(i) ==
    /\ job[i].pc = "lock"
    /\ LockAvailable
    /\ lock' = i
    /\ job' = SetJob(i, [job[i] EXCEPT !.pc = "seek"])
    /\ UNCHANGED <<tiff, max_workers, run, first, pc, folderExists, files, img, total_frames,
                   pbar, executor, submitted, seen, result>>

\* mutation of Seek: the with block ends after the seek, so that convert runs
\* with the lock released
SeekThenUnlock(i) ==
    /\ job[i].pc = "seek"
    /\ IF tiff.kind[i] = "badseek"
       THEN /\ job' = SetJob(i, [job[i] EXCEPT !.pc = "release", !.exc = "seek"])
            /\ UNCHANGED <<img, lock>>
       ELSE /\ img' = [img EXCEPT !.frame = i]
            /\ lock' = NoJob
            /\ job' = SetJob(i, [job[i] EXCEPT !.pc = "convert"])
    /\ UNCHANGED <<tiff, max_workers, run, first, pc, folderExists, files, total_frames,
                   pbar, executor, submitted, seen, result>>

\* mutation of Seek: the error of a failed seek is swallowed (try/except pass)
SeekIgnoreError(i) ==
    /\ job[i].pc = "seek"
    /\ img' = IF tiff.kind[i] = "badseek" THEN img ELSE [img EXCEPT !.frame = i]
    /\ job' = SetJob(i, [job[i] EXCEPT !.pc = "convert"])
    /\ UNCHANGED <<tiff, max_workers, run, first, pc, folderExists, files, total_frames, lock,
                   pbar, executor, submitted, seen, result>>

\* line 19: img.seek(i); a frame whose directory cannot be read raises and
\* leaves the cursor where it was
Seek(i) ==
    /\ job[i].pc = "seek"
    /\ IF tiff.kind[i] = "badseek"
       THEN /\ job' = SetJob(i, [job[i] EXCEPT !.pc = "release", !.exc = "seek"])
            /\ UNCHANGED img
       ELSE /\ img' = [img EXCEPT !.frame = i]
            /\ job' = SetJob(i, [job[i] EXCEPT !.pc = "convert"])
    /\ UNCHANGED <<tiff, max_workers, run, first, pc, folderExists, files, total_frames, lock,
                   pbar, executor, submitted, seen, result>>

\* line 20: frame = img.convert("RGB"): loads the pixel data of the frame the
\* cursor is on and returns a new image; undecodable data raises
Convert(i) ==
    /\ job[i].pc = "convert"
    /\ IF tiff.kind[img.frame] = "baddata"
       THEN job' = SetJob(i, [job[i] EXCEPT !.pc = "release", !.exc = "convert"])
       ELSE job' = SetJob(i, [job[i] EXCEPT !.pc = "release",
                                            !.frame = ConvertRGB(PageData(img.frame))])
    /\ UNCHANGED <<tiff, max_workers, run, first, pc, folderExists, files, img, total_frames,
                   lock, pbar, executor, submitted, seen, result>>

\* mutation of Release: lock.acquire() / lock.release() without try/finally,
\* so that an exception in seek or convert skips the release
ReleaseLeaksOnError(i) ==
    /\ job[i].pc = "release"
    /\ lock' = IF job[i].exc = "none" THEN NoJob ELSE lock
    /\ job' = SetJob(i, [job[i] EXCEPT
                           !.pc = IF job[i].exc = "none" THEN "save" ELSE "failed"])
    /\ UNCHANGED <<tiff, max_workers, run, first, pc, folderExists, files, img, total_frames,
                   pbar, executor, submitted, seen, result>>

\* mutation of Release: frame.save indented into the with block, so that the
\* lock is still held when the job goes on to save
ReleaseKeepsLock(i) ==
    /\ job[i].pc = "release"
    /\ lock' = IF job[i].exc = "none" THEN lock ELSE NoJob
    /\ job' = SetJob(i, [job[i] EXCEPT
                           !.pc = IF job[i].exc = "none" THEN "save" ELSE "failed"])
    /\ UNCHANGED <<tiff, max_workers, run, first, pc, folderExists, files, img, total_frames,
                   pbar, executor, submitted, seen, result>>

\* line 18-20: with lock (exit), on the normal and on the exceptional path;
\* an exception leaves save_frame_shared and is stored in the job's future
Release(i) ==
    /\ job[i].pc = "release"
    /\ lock' = NoJob
    /\ job' = SetJob(i, [job[i] EXCEPT
                           !.pc = IF job[i].exc = "none" THEN "save" ELSE "failed"])
    /\ UNCHANGED <<tiff, max_workers, run, first, pc, folderExists, files, img, total_frames,
                   pbar, executor, submitted, seen, result>>

\* line 21: frame.save(jpeg_filename, "JPEG") opens the file "w+b" (creating
\* or truncating it); the open may fail (OSError)
SaveOpen(i) ==
    /\ job[i].pc = "save"
    /\ \/ /\ files' = WriteFile(files, job[i].filename, Truncated)
          /\ job' = SetJob(i, [job[i] EXCEPT
                                 !.pc = "write",
                                 !.created = job[i].filename \notin DOMAIN files])
       \/ /\ job' = SetJob(i, [job[i] EXCEPT !.pc = "failed", !.exc = "save"])
          /\ UNCHANGED files
    /\ UNCHANGED <<tiff, max_workers, run, first, pc, folderExists, img, total_frames, lock,
                   pbar, executor, submitted, seen, result>>

\* mutation of SaveWrite: the job itself advances the bar after its save
SaveWriteAdvancesBar(i) ==
    /\ job[i].pc = "write"
    /\ \/ /\ files' = WriteFile(files, job[i].filename, EncodeJPEG(job[i].frame))
          /\ job' = SetJob(i, [job[i] EXCEPT !.pc = "done"])
          /\ pbar' = [pbar EXCEPT !.n = @ + 1]
       \/ /\ files' = IF job[i].created THEN RemoveFile(files, job[i].filename)
                      ELSE files
          /\ job' = SetJob(i, [job[i] EXCEPT !.pc = "failed", !.exc = "save"])
          /\ UNCHANGED pbar
    /\ UNCHANGED <<tiff, max_workers, run, first, pc, folderExists, img, total_frames, lock,
                   executor, submitted, seen, result>>

\* mutation of SaveWrite: a failed write leaves the file it created behind
SaveWriteKeepsPartial(i) ==
    /\ job[i].pc = "write"
    /\ \/ /\ files' = WriteFile(files, job[i].filename, EncodeJPEG(job[i].frame))
          /\ job' = SetJob(i, [job[i] EXCEPT !.pc = "done"])
       \/ /\ UNCHANGED files
          /\ job' = SetJob(i, [job[i] EXCEPT !.pc = "failed", !.exc = "save"])
    /\ UNCHANGED <<tiff, max_workers, run, first, pc, folderExists, img, total_frames, lock,
                   pbar, executor, submitted, seen, result>>

\* line 21: frame.save encodes into the open file and closes it; when encoding
\* or writing raises, save removes the file if it had created it and re-raises
SaveWrite(i) ==
    /\ job[i].pc = "write"
    /\ \/ /\ files' = WriteFile(files, job[i].filename, EncodeJPEG(job[i].frame))
          /\ job' = SetJob(i, [job[i] EXCEPT !.pc = "done"])
       \/ /\ files' = IF job[i].created THEN RemoveFile(files, job[i].filename)
                      ELSE files
          /\ job' = SetJob(i, [job[i] EXCEPT !.pc = "failed", !.exc = "save"])
    /\ UNCHANGED <<tiff, max_workers, run, first, pc, folderExists, img, total_frames, lock,
                   pbar, executor, submitted, seen, result>>

\* ------------------------------------------------------------- specification

Next ==
    \/ Makedirs
    \/ OpenImage
    \/ StartPool
    \/ Submit
    \/ SubmitDone
    \/ Update
    \/ UpdateDone
    \/ Shutdown
    \/ PbarClose
    \/ ImgClose
    \/ \E i \in DOMAIN job : Dequeue(i)
    \/ \E i \in DOMAIN job : Acquire(i)
    \/ \E i \in DOMAIN job : Seek(i)
    \/ \E i \in DOMAIN job : Convert(i)
    \/ \E i \in DOMAIN job : Release(i)
    \/ \E i \in DOMAIN job : SaveOpen(i)
    \/ \E i \in DOMAIN job : SaveWrite(i)

Spec == Init /\ [][Next]_vars

\* the threads are scheduled by the operating system: as long as some thread
\* can take a step, a step is eventually taken
InitFair == Init /\ tiff.n_frames <= MaxPagesFair

FairSpec == InitFair /\ [][Next]_vars /\ WF_vars(Next)

\* ------------------------------------------------------------- a second call

\* the caller calls tiff2jpeg(tiff_path, output_folder) again after the first
\* call has returned: same input, same folder, everything else starts anew
Rerun ==
    /\ pc = "done"
    /\ run = 1
    /\ run' = 2
    /\ first' = [files |-> files, done |-> {i \in DOMAIN job : job[i].pc = "done"}]
    /\ pc' = "makedirs"
    /\ img' = [state |-> "unopened", frame |-> 0, closes |-> 0]
    /\ total_frames' = 0
    /\ lock' = NoJob
    /\ pbar' = [state |-> "none", total |-> 0, n |-> 0]
    /\ executor' = "none"
    /\ submitted' = 0
    /\ seen' = 0
    /\ job' = [i \in DOMAIN job |-> NewJob]
    /\ result' = "running"
    /\ UNCHANGED <<tiff, max_workers, folderExists, files>>

NextTwice == Next \/ Rerun

InitTwice == Init /\ tiff.n_frames <= MaxPagesTwice

SpecTwice == InitTwice /\ [][NextTwice]_vars

\* ------------------------------------------------------------- properties

\* job i is inside `with lock:` (lines 18-20)
InSection(i) == job[i].pc \in {"seek", "convert", "release"}

\* job i is inside frame.save (line 21)
Saving(i) == job[i].pc \in {"save", "write"}

Failed == {i \in DOMAIN job : job[i].pc = "failed"}

Finished == {i \in DOMAIN job : Terminated(i)}

\* the JPEG of source page i
PageJpeg(i) == EncodeJPEG(ConvertRGB(PageData(i)))

\* the name "0000i.jpg", written out (i < 10)
FiveDigitName(i) == [stem |-> <<0, 0, 0, 0, i>>, ext |-> "jpg"]

HasPageFile(i) ==
    /\ FiveDigitName(i) \in DOMAIN files
    /\ files[FiveDigitName(i)] = PageJpeg(i)

\* C1: in every reachable state at most one save_frame_shared job is between
\* acquiring and releasing the lock around seek and convert.
C1_MutualExclusion == Cardinality({i \in DOMAIN job : InSection(i)}) <= 1

\* a job is in the section while a second one waits for the lock
C1_Witness ==
    \E i, j \in DOMAIN job :
        /\ i # j
        /\ InSection(i)
        /\ job[j].pc = "lock"
        /\ lock = i

\* C2: for N >= 2 and every pool size and interleaving, when tiff2jpeg returns
\* every file written for an index i holds the data of source page i, and
\* every job that completed has its file.
C2_OwnPageContent ==
    (pc = "done" /\ tiff.n_frames >= 2) =>
        /\ \A n \in DOMAIN files :
              \E i \in Pages : n = FiveDigitName(i) /\ files[n] = PageJpeg(i)
        /\ \A i \in Pages : job[i].pc = "done" => HasPageFile(i)

C2_Witness ==
    /\ pc = "done"
    /\ tiff.n_frames >= 2
    /\ max_workers >= 2
    /\ HasPageFile(0)
    /\ HasPageFile(1)

\* C3: for a valid input with N pages in which no job fails, when tiff2jpeg
\* returns the files of the output folder are exactly the N names 00000.jpg ..
\* (N-1 zero-padded to 5 digits).jpg.
C3_ExactlyNFiles ==
    (pc = "done" /\ Failed = {}) =>
        /\ DOMAIN files = {FiveDigitName(i) : i \in Pages}
        /\ Cardinality(DOMAIN files) = tiff.n_frames

C3_Witness ==
    /\ pc = "done"
    /\ Failed = {}
    /\ tiff.n_frames = MaxPages
    /\ Cardinality(DOMAIN files) = MaxPages

\* C4: in every reachable state the progress counter is no greater than the
\* number of jobs that have finished (file written or failure raised).
C4_ProgressCountsFinished == pbar.n <= Cardinality(Finished)

\* C5: whenever the container opens with N pages, the progress counter equals
\* N when tiff2jpeg returns, whatever the completion order and outcome of the jobs.
C5_ProgressReachesN == pc = "done" => pbar.n = tiff.n_frames

C5_Witness ==
    /\ pc = "done"
    /\ tiff.n_frames >= 2
    /\ pbar.n = tiff.n_frames
    /\ Failed # {}

\* the input has exactly one unreadable page, k, and no job hit a disk error
OnlyPageFails(k) ==
    /\ k \in Pages
    /\ tiff.kind[k] # "ok"
    /\ \A i \in Pages \ {k} : tiff.kind[i] = "ok"
    /\ \A i \in Pages : job[i].exc # "save"

\* C6: if the job of page k fails during extraction (seek or decode) and all
\* other pages are valid, then when tiff2jpeg finishes every page i # k has its
\* file with page i's data and no file for page k was written.
C6_FaultIsolation ==
    \A k \in DOMAIN job :
        (pc = "done" /\ OnlyPageFails(k)) =>
            /\ \A i \in Pages \ {k} : HasPageFile(i)
            /\ FiveDigitName(k) \notin DOMAIN files
            /\ job[k].pc = "failed"

C6_Witness ==
    /\ pc = "done"
    /\ tiff.n_frames = MaxPages
    /\ OnlyPageFails(1)
    /\ job[1].pc = "failed"
    /\ HasPageFile(0)
    /\ HasPageFile(2)

\* C7: when tiff2jpeg finishes after one or more jobs failed, what the caller
\* observes identifies the failed pages; a failure is never silently dropped.
\* (The value None names no page and no count: it can only stand for a run
\* without failures.)
C7_FailuresReported == (pc = "done" /\ result = "None") => Failed = {}

\* C8: if opening the container fails, tiff2jpeg fails with that error, no job
\* is ever dispatched, no JPEG is written, and the output folder has already
\* been created.
C8_OpenFailure ==
    /\ ~tiff.valid =>
          /\ \A i \in DOMAIN job : job[i].pc = "new"
          /\ submitted = 0
          /\ executor = "none"
          /\ DOMAIN files = {}
          /\ pc \in {"makedirs", "open", "raised"}
    /\ (~tiff.valid /\ pc = "raised") => result \in {"OpenError", "OutputDirError"}
    /\ result = "OpenError" => (~tiff.valid /\ pc = "raised" /\ folderExists)

C8_Witness ==
    /\ pc = "raised"
    /\ result = "OpenError"
    /\ folderExists
    /\ DOMAIN files = {}

\* C9: when the container is opened, the handle is closed exactly once and only
\* after every dispatched job has terminated; no job seeks or decodes on a
\* closed handle; it is closed when tiff2jpeg returns or raises.
C9_CloseAfterJobs ==
    /\ img.closes <= 1
    /\ (img.state = "closed") <=> (img.closes = 1)
    /\ img.state = "closed" => \A i \in DOMAIN job : job[i].pc \in {"new", "done", "failed"}
    /\ \A i \in DOMAIN job : (InSection(i) \/ job[i].pc = "lock") => img.state = "open"
    /\ pc = "done" => (img.state = "closed" /\ Finished = Pages)
    /\ pc = "raised" => img.state = "unopened"

C9_Witness ==
    /\ pc = "done"
    /\ img.state = "closed"
    /\ img.closes = 1
    /\ Failed # {}
    /\ Cardinality(Finished) = MaxPages

\* C10: with one page tiff2jpeg writes exactly the file for index 0; with no
\* page it dispatches no job, writes no file, leaves the progress counter at 0
\* and returns normally.
C10_Boundary ==
    /\ (pc = "done" /\ tiff.n_frames = 1 /\ Failed = {}) =>
          /\ DOMAIN files = {FiveDigitName(0)}
          /\ HasPageFile(0)
    /\ (tiff.valid /\ tiff.n_frames = 0) =>
          /\ \A i \in DOMAIN job : job[i].pc = "new"
          /\ submitted = 0
          /\ DOMAIN files = {}
          /\ pbar.n = 0
          /\ result \in {"running", "None", "OutputDirError"}
          /\ pc = "done" => result = "None"

C10_Witness ==
    /\ pc = "done"
    /\ tiff.valid
    /\ tiff.n_frames = 0
    /\ result = "None"
    /\ pbar = [state |-> "closed", total |-> 0, n |-> 0]

C10_WitnessOnePage ==
    /\ pc = "done"
    /\ tiff.n_frames = 1
    /\ DOMAIN files = {FiveDigitName(0)}

Done == {i \in DOMAIN job : job[i].pc = "done"}

C12_NoPartialFile ==
    \A i \in DOMAIN job :
        job[i].pc = "failed" =>
            \/ job[i].filename \notin DOMAIN files
            \/ files[job[i].filename].format = "JPEG"

\* C13: if creating the output folder fails, tiff2jpeg aborts with that error
\* before the container is opened and before any job starts: no handle, no
\* job, no pool, and the progress bar is never created or advanced.
C13_MakedirsFailure ==
    result = "OutputDirError" =>
        /\ pc = "raised"
        /\ ~folderExists
        /\ img = [state |-> "unopened", frame |-> 0, closes |-> 0]
        /\ \A i \in DOMAIN job : job[i].pc = "new"
        /\ submitted = 0
        /\ executor = "none"
        /\ pbar = [state |-> "none", total |-> 0, n |-> 0]
        /\ DOMAIN files = {}

C13_Witness ==
    /\ pc = "raised"
    /\ result = "OutputDirError"
    /\ tiff.valid
    /\ tiff.n_frames >= 1

\* C14: the cursor is on page i (and job i holds the lock) for as long as job i
\* is between its seek and its decode, and the frame job i copied out stays
\* page i's frame whatever other jobs seek afterwards.
C14_SeekDecodeAtomic ==
    \A i \in DOMAIN job :
        /\ job[i].pc = "convert" => (img.frame = i /\ lock = i)
        /\ job[i].frame \in {NoFrame, ConvertRGB(PageData(i))}
        /\ (job[i].pc \in {"save", "write", "done"}) =>
              job[i].frame = ConvertRGB(PageData(i))

\* job i still holds its frame while job j has moved the cursor to page j
C14_Witness ==
    \E i, j \in DOMAIN job :
        /\ i # j
        /\ Saving(i)
        /\ job[i].frame = ConvertRGB(PageData(i))
        /\ job[j].pc = "convert"
        /\ img.frame = j

\* C15: a job never holds the lock while it encodes and writes its JPEG (the
\* lock is released before frame.save begins); only a pool of one worker keeps
\* the jobs from overlapping.
C15_SaveOutsideLock ==
    /\ \A i \in DOMAIN job : (Saving(i) \/ Terminated(i)) => lock # i
    /\ max_workers = 1 => Cardinality({i \in DOMAIN job : Running(i)}) <= 1

\* one job writes while another is inside the exclusive section
C15_Witness ==
    \E i, j \in DOMAIN job :
        /\ i # j
        /\ job[i].pc = "write"
        /\ InSection(j)
        /\ lock = j

\* two jobs are inside frame.save at the same time
C15_WitnessBothSaving ==
    \E i, j \in DOMAIN job : i # j /\ job[i].pc = "write" /\ job[j].pc = "write"

JobIds == 0 .. (MaxPagesFair - 1)

\* C16: under fair scheduling every dispatched job eventually enters the
\* exclusive section, every job eventually terminates (success or failure),
\* and tiff2jpeg eventually returns or raises.
C16_Termination ==
    /\ <>(pc \in {"done", "raised"})
    /\ \A i \in JobIds : (job[i].pc = "queued") ~> InSection(i)
    /\ \A i \in JobIds : InSection(i) ~> Terminated(i)
    /\ (pc = "submit") ~> (pc = "done")

C16_Witness ==
    /\ pc = "done"
    /\ tiff.n_frames = MaxPagesFair
    /\ max_workers = 1
    /\ Finished = Pages
    /\ Failed # {}
    /\ Done # {}

Dispatched == {i \in DOMAIN job : job[i].pc # "new"}

\* C17: the progress counter changes only in the pipeline's update loop and
\* only by +1; it never exceeds the page count; every step that changes a job
\* leaves it unchanged; at the return it has advanced once per dispatched job.
C17_BarOnlyByPipeline ==
    [][ /\ pbar'.n \in {pbar.n, pbar.n + 1}
        /\ pbar'.n # pbar.n =>
              (pc = "update" /\ job' = job /\ files' = files /\ lock' = lock /\ img' = img)
        /\ job' # job => pbar' = pbar
        /\ pbar'.n <= tiff.n_frames
        /\ pc' = "done" => pbar'.n = Cardinality({i \in DOMAIN job : job'[i].pc # "new"})
      ]_vars

\* the bar is advanced while jobs are at work or already finished
C17_Witness ==
    /\ pc = "update"
    /\ pbar.n >= 1
    /\ pbar.n < tiff.n_frames
    /\ \E i \in DOMAIN job : Saving(i)
    /\ \E i \in DOMAIN job : Terminated(i)

\* C18: a step changes a file of the folder only if it is a step of the job of
\* index i inside frame.save and the file is the one named from i; the jobs
\* at work have pairwise different paths, and no index is dispatched twice.
C18_OwnFileOnly ==
    [][ /\ \A n \in (DOMAIN files) \cup (DOMAIN files') :
              \/ n \in DOMAIN files /\ n \in DOMAIN files' /\ files'[n] = files[n]
              \/ \E i \in DOMAIN job :
                    Saving(i) /\ job'[i] # job[i] /\ n = FiveDigitName(i)
        /\ \A i, j \in DOMAIN job :
              (i # j /\ Running(i) /\ Running(j)) => job[i].filename # job[j].filename
        /\ \A i \in DOMAIN job :
              job'[i].pc = "queued" => job[i].pc \in {"new", "queued"}
      ]_vars

\* job i has written its file while another file of the folder is being written
C18_Witness ==
    \E i, j \in DOMAIN job :
        /\ i # j
        /\ job[i].pc = "done"
        /\ HasPageFile(i)
        /\ job[j].pc = "write"
        /\ files[FiveDigitName(j)] = Truncated

\* C19: a failure inside the exclusive section releases it: a terminated job
\* never holds the lock, and whenever no job is between acquire and release
\* the lock is free, so that a job waiting for it can acquire it.
C19_FailureReleasesLock ==
    /\ \A i \in DOMAIN job : Terminated(i) => lock # i
    /\ (\A i \in DOMAIN job : ~InSection(i)) =>
          /\ lock = NoJob
          /\ \A j \in DOMAIN job : job[j].pc = "lock" => ENABLED Acquire(j)

\* a job has failed in seek or convert, and the next one is about to acquire
C19_Witness ==
    /\ \E k \in DOMAIN job : job[k].pc = "failed" /\ job[k].exc \in {"seek", "convert"}
    /\ \E j \in DOMAIN job : job[j].pc = "lock"
    /\ \A i \in DOMAIN job : ~InSection(i)
    /\ lock = NoJob

====
